---- MODULE Spec2Model ----
(***************************************************************************)
(* Model of the Rig agent and tool templates:                              *)
(*   assets/agent-template.rs  fallback_agent, streaming_agent, chat_agent *)
(*   assets/tool-template.rs   Calculator, HttpClient                      *)
(* A caller runs one template function (or hands one JSON argument text to *)
(* a tool).  Every step of the model is the code between two await points. *)
(* The provider behind agent.prompt / agent.chat / stream.next is outside  *)
(* the repository: each of its replies is a nondeterministic choice.       *)
(***************************************************************************)
EXTENDS Integers, Sequences, FiniteSets, TLC

VARIABLES
    pc,              \* position of the running template function
    fn,              \* the template function the caller started
    ret,             \* what the function returned: Result<()>
    stdout,          \* lines written by print! / println!
    stderr,          \* lines written by eprintln!
    calls,           \* prompts issued by fallback_agent: [agent, input]
    primaryResult,   \* result of primary.prompt(query).await
    fallbackResult,  \* result of fallback.prompt(query).await
    pullLog,         \* results of stream.next().await, in order
    messages,        \* chat_agent's `messages` vector
    sent,            \* conversations handed to the provider by agent.chat
    chatResults,     \* results of the agent.chat calls, in order
    toolArgs,        \* JSON argument text handed to a tool
    handlerCalls,    \* typed arguments with which Tool::call was entered
    toolOutcome      \* outcome of the tool invocation

vars == << pc, fn, ret, stdout, stderr, calls, primaryResult, fallbackResult,
           pullLog, messages, sent, chatResults, toolArgs, handlerCalls,
           toolOutcome >>

----------------------------------------------------------------------------
(* Bounds of the model *)

MaxAnswer == 2
MaxErrCode == 2
MaxChunks == 3
MaxArrayLen == 2

----------------------------------------------------------------------------
(* Values *)

\* texts a provider may answer with
Answers == 1..MaxAnswer

\* errors a provider may raise; `transient` is the provider's classification
Errors == [transient : BOOLEAN, code : 1..MaxErrCode]

NoErr == [transient |-> FALSE, code |-> 0]

Ok(v) == [kind |-> "Ok", val |-> v, err |-> NoErr]

Err(e) == [kind |-> "Err", val |-> 0, err |-> e]

\* the value of a result that does not exist (yet)
None == [kind |-> "None", val |-> 0, err |-> NoErr]

\* what agent.prompt(..).await / agent.chat(..).await may evaluate to
PromptOutcomes == {Ok(a) : a \in Answers} \cup {Err(e) : e \in Errors}

\* `expr?` on an Err: the error is converted with From into anyhow::Error and
\* returned; no other wrapper is put around it
Try(e) == [kind |-> "Err", wrapper |-> "none", err |-> e]

\* Ok(()) at the end of a template function
OkUnit == [kind |-> "Ok", wrapper |-> "none", err |-> NoErr]

NotReturned == [kind |-> "None", wrapper |-> "none", err |-> NoErr]

Last(s) == s[Len(s)]

----------------------------------------------------------------------------
(* fallback_agent *)

FallbackQuery == "What is Rust?"

FallbackNotice == "Primary failed, using fallback..."

\* the arm of `match primary.prompt(query).await` that is taken
MatchPrimary_transientOnly(res) ==
    IF res.kind = "Ok" THEN "Ok"
    ELSE IF res.err.transient THEN "Err" ELSE "Fail"

MatchPrimary_alwaysErr(res) == "Err"

MatchPrimary(res) ==
    IF res.kind = "Ok" THEN "Ok" ELSE "Err"

\* the input of fallback.prompt(..)
FallbackInput_notice(query) == FallbackNotice

FallbackInput(query) == query

\* the error that leaves fallback_agent when fallback.prompt fails
FallbackFailure_primaryError(primaryRes, fallbackRes) == Try(primaryRes.err)

FallbackFailure(primaryRes, fallbackRes) == Try(fallbackRes.err)

Call_fallback_agent ==
    /\ pc = "idle"
    /\ fn' = "fallback_agent"
    /\ pc' = "fb_primary"
    /\ UNCHANGED << ret, stdout, stderr, calls, primaryResult, fallbackResult,
                    pullLog, messages, sent, chatResults, toolArgs,
                    handlerCalls, toolOutcome >>

\* primary.prompt(query).await and the match on its result.  The match has the
\* two arms Ok(r) and Err(_); the last case below is taken by no result and
\* only says that a result matching neither arm would leave with its error.
PrimaryPrompt ==
    /\ pc = "fb_primary"
    /\ \E res \in PromptOutcomes :
        /\ calls' = Append(calls, [agent |-> "primary", input |-> FallbackQuery])
        /\ primaryResult' = res
        /\ CASE MatchPrimary(res) = "Ok" ->
                  /\ stdout' = Append(stdout, << "response", res.val >>)
                  /\ ret' = OkUnit
                  /\ pc' = "returned"
             [] MatchPrimary(res) = "Err" ->
                  /\ stdout' = Append(stdout, << "notice", FallbackNotice >>)
                  /\ ret' = ret
                  /\ pc' = "fb_fallback"
             [] OTHER ->
                  /\ stdout' = stdout
                  /\ ret' = Try(res.err)
                  /\ pc' = "returned"
    /\ UNCHANGED << fn, stderr, fallbackResult, pullLog, messages, sent,
                    chatResults, toolArgs, handlerCalls, toolOutcome >>

\* fallback.prompt(query).await? , println!("{}", response), Ok(())
FallbackPrompt ==
    /\ pc = "fb_fallback"
    /\ \E res \in PromptOutcomes :
        /\ calls' = Append(calls, [agent |-> "fallback",
                                   input |-> FallbackInput(FallbackQuery)])
        /\ fallbackResult' = res
        /\ IF res.kind = "Ok"
           THEN /\ stdout' = Append(stdout, << "response", res.val >>)
                /\ ret' = OkUnit
           ELSE /\ stdout' = stdout
                /\ ret' = FallbackFailure(primaryResult, res)
        /\ pc' = "returned"
    /\ UNCHANGED << fn, stderr, primaryResult, pullLog, messages, sent,
                    chatResults, toolArgs, handlerCalls, toolOutcome >>

----------------------------------------------------------------------------
(* streaming_agent *)

\* what stream.next().await may evaluate to: Some(Ok(text)), Some(Err(e)), None
StreamItems == PromptOutcomes \cup {None}

\* `while let Some(chunk) = stream.next().await`
LoopContinues_untilError(item) == item.kind = "Ok"

LoopContinues(item) == item.kind # "None"

\* agent.stream_prompt(..).await? and print!("Story: ")
Call_streaming_agent ==
    /\ pc = "idle"
    /\ fn' = "streaming_agent"
    /\ \E opened \in {Ok(0)} \cup {Err(e) : e \in Errors} :
        IF opened.kind = "Ok"
        THEN /\ stdout' = Append(stdout, << "story", 0 >>)
             /\ ret' = ret
             /\ pc' = "st_loop"
        ELSE /\ stdout' = stdout
             /\ ret' = Try(opened.err)
             /\ pc' = "returned"
    /\ UNCHANGED << stderr, calls, primaryResult, fallbackResult, pullLog,
                    messages, sent, chatResults, toolArgs, handlerCalls,
                    toolOutcome >>

\* one stream.next().await, the loop test and the loop body; after the loop
\* println!() and Ok(())
StreamNext ==
    /\ pc = "st_loop"
    /\ \E item \in StreamItems :
        /\ item.kind # "None" => Len(pullLog) < MaxChunks
        /\ pullLog' = Append(pullLog, item)
        /\ IF LoopContinues(item)
           THEN /\ stdout' = IF item.kind = "Ok"
                             THEN Append(stdout, << "text", item.val >>)
                             ELSE stdout
                /\ stderr' = IF item.kind = "Err"
                             THEN Append(stderr, << "error", item.err >>)
                             ELSE stderr
                /\ ret' = ret
                /\ pc' = "st_loop"
           ELSE /\ stdout' = Append(stdout, << "newline", 0 >>)
                /\ stderr' = stderr
                /\ ret' = OkUnit
                /\ pc' = "returned"
    /\ UNCHANGED << fn, calls, primaryResult, fallbackResult, messages, sent,
                    chatResults, toolArgs, handlerCalls, toolOutcome >>

----------------------------------------------------------------------------
(* chat_agent *)

ChatPreamble == "You are a helpful coding tutor."

FirstQuestion == "What is ownership in Rust?"

SecondQuestion == "Can you give an example?"

Message(role, content) == [role |-> role, content |-> content]

\* the agent is built with a preamble; agent.chat(messages) hands the provider
\* the preamble as the system message, followed by the messages
Conversation(msgs) == << Message("system", ChatPreamble) >> \o msgs

\* messages.push(Message::assistant(&response1));
\* messages.push(Message::user("Can you give an example?"));
SecondTurn_userFirst(msgs, response1) ==
    msgs \o << Message("user", SecondQuestion), Message("assistant", response1) >>

SecondTurn(msgs, response1) ==
    msgs \o << Message("assistant", response1), Message("user", SecondQuestion) >>

Call_chat_agent ==
    /\ pc = "idle"
    /\ fn' = "chat_agent"
    /\ messages' = << Message("user", FirstQuestion) >>
    /\ pc' = "ch_turn1"
    /\ UNCHANGED << ret, stdout, stderr, calls, primaryResult, fallbackResult,
                    pullLog, sent, chatResults, toolArgs, handlerCalls,
                    toolOutcome >>

\* agent.chat(messages.clone()).await? , the print and the two pushes
ChatTurn1 ==
    /\ pc = "ch_turn1"
    /\ \E res \in PromptOutcomes :
        /\ sent' = Append(sent, Conversation(messages))
        /\ chatResults' = Append(chatResults, res)
        /\ IF res.kind = "Ok"
           THEN /\ stdout' = Append(stdout, << "assistant", res.val >>)
                /\ messages' = SecondTurn(messages, res.val)
                /\ ret' = ret
                /\ pc' = "ch_turn2"
           ELSE /\ stdout' = stdout
                /\ messages' = messages
                /\ ret' = Try(res.err)
                /\ pc' = "returned"
    /\ UNCHANGED << fn, stderr, calls, primaryResult, fallbackResult, pullLog,
                    toolArgs, handlerCalls, toolOutcome >>

\* agent.chat(messages).await? , the print and Ok(())
ChatTurn2 ==
    /\ pc = "ch_turn2"
    /\ \E res \in PromptOutcomes :
        /\ sent' = Append(sent, Conversation(messages))
        /\ chatResults' = Append(chatResults, res)
        /\ IF res.kind = "Ok"
           THEN /\ stdout' = Append(stdout, << "assistant", res.val >>)
                /\ ret' = OkUnit
           ELSE /\ stdout' = stdout
                /\ ret' = Try(res.err)
        /\ pc' = "returned"
    /\ UNCHANGED << fn, stderr, calls, primaryResult, fallbackResult, pullLog,
                    messages, toolArgs, handlerCalls, toolOutcome >>

----------------------------------------------------------------------------
(* Tools: Calculator and HttpClient *)

\* string contents that occur in argument texts
Strings == {"", "GET", "2+2", "B AD"}

Absent == << "absent" >>

JsonScalars == {<< "null" >>, << "number" >>} \cup {<< "string", s >> : s \in Strings}

FieldNames == {"expression", "url", "method"}

NoMembers == [f \in FieldNames |-> Absent]

JsonObject(members) == [shape |-> "object", members |-> members, items |-> << >>]

JsonArray(items) == [shape |-> "array", members |-> NoMembers, items |-> items]

JsonScalar(v) == [shape |-> "scalar", members |-> NoMembers, items |-> << v >>]

ArraysUpTo(n) == UNION {[1..k -> JsonScalars] : k \in 0..n}

\* the JSON argument texts a provider may send with a tool call
JsonTexts ==
    {JsonObject(m) : m \in [FieldNames -> JsonScalars \cup {Absent}]}
    \cup {JsonArray(a) : a \in ArraysUpTo(MaxArrayLen)}
    \cup {JsonScalar(v) : v \in JsonScalars}

IsString(v) == v[1] = "string"

\* the `parameters` schema each tool declares in definition()
SchemaValid(tool, json) ==
    /\ json.shape = "object"
    /\ IF tool = "calculator"
       THEN IsString(json.members["expression"])
       ELSE /\ IsString(json.members["url"])
            /\ json.members["method"] = Absent \/ IsString(json.members["method"])

NoArgs == [expression |-> "", url |-> "", method |-> ""]

Rejected == [kind |-> "Err", args |-> NoArgs]

Accepted(args) == [kind |-> "Ok", args |-> args]

\* #[derive(Deserialize)] struct CalculatorInput { expression: String }
\* read from a JSON text: an object is read by member name (members that are
\* not fields are skipped), an array is read by position, anything else fails
DeserializeCalculatorInput(json) ==
    CASE json.shape = "object" ->
           IF IsString(json.members["expression"])
           THEN Accepted([NoArgs EXCEPT !.expression = json.members["expression"][2]])
           ELSE Rejected
      [] json.shape = "array" ->
           IF Len(json.items) = 1 /\ IsString(json.items[1])
           THEN Accepted([NoArgs EXCEPT !.expression = json.items[1][2]])
           ELSE Rejected
      [] OTHER -> Rejected

\* #[derive(Deserialize)] struct HttpInput { url: String,
\*                                           #[serde(default)] method: String }
DeserializeHttpInput(json) ==
    CASE json.shape = "object" ->
           IF /\ IsString(json.members["url"])
              /\ json.members["method"] = Absent \/ IsString(json.members["method"])
           THEN Accepted([NoArgs EXCEPT
                    !.url = json.members["url"][2],
                    !.method = IF json.members["method"] = Absent
                               THEN "" ELSE json.members["method"][2]])
           ELSE Rejected
      [] json.shape = "array" ->
           IF /\ Len(json.items) \in {1, 2}
              /\ \A i \in 1..Len(json.items) : IsString(json.items[i])
           THEN Accepted([NoArgs EXCEPT
                    !.url = json.items[1][2],
                    !.method = IF Len(json.items) = 2
                               THEN json.items[2][2] ELSE ""])
           ELSE Rejected
      [] OTHER -> Rejected

NoOutcome == [stage |-> "none", kind |-> "None", detail |-> "none"]

ArgumentsError == [stage |-> "arguments", kind |-> "Err", detail |-> "deserialize"]

HandlerOk(d) == [stage |-> "handler", kind |-> "Ok", detail |-> d]

HandlerErr(d) == [stage |-> "handler", kind |-> "Err", detail |-> d]

\* Calculator::call : meval::eval_str(&args.expression) mapped to CalculatorError
CalculatorCall(args) ==
    IF args.expression = "2+2" THEN HandlerOk("4") ELSE HandlerErr("CalculatorError")

\* the strings reqwest::Method parses: non-empty HTTP tokens
ParsesAsMethod(s) == s \in {"GET", "2+2"}

\* what send().await and text().await may do
NetOutcomes == {HandlerOk("body"), HandlerErr("HttpError")}

\* HttpClient::call : empty method means GET, the method is parsed, the request
\* is sent and the body read
HttpCall(args, net) ==
    LET method == IF args.method = "" THEN "GET" ELSE args.method
    IN  IF ParsesAsMethod(method) THEN net ELSE HandlerErr("Invalid method")

\* a tool call for `calculator`: the argument text becomes Self::Args, and
\* Calculator::call runs on the typed value
Invoke_calculator ==
    /\ pc = "idle"
    /\ fn' = "calculator"
    /\ \E json \in JsonTexts :
        /\ toolArgs' = json
        /\ LET d == DeserializeCalculatorInput(json)
           IN  IF d.kind = "Ok"
               THEN /\ handlerCalls' = Append(handlerCalls, d.args)
                    /\ toolOutcome' = CalculatorCall(d.args)
               ELSE /\ handlerCalls' = handlerCalls
                    /\ toolOutcome' = ArgumentsError
    /\ pc' = "returned"
    /\ UNCHANGED << ret, stdout, stderr, calls, primaryResult, fallbackResult,
                    pullLog, messages, sent, chatResults >>

\* a tool call for `http_request`
Invoke_http_request ==
    /\ pc = "idle"
    /\ fn' = "http_request"
    /\ \E json \in JsonTexts, net \in NetOutcomes :
        /\ toolArgs' = json
        /\ LET d == DeserializeHttpInput(json)
           IN  IF d.kind = "Ok"
               THEN /\ handlerCalls' = Append(handlerCalls, d.args)
                    /\ toolOutcome' = HttpCall(d.args, net)
               ELSE /\ handlerCalls' = handlerCalls
                    /\ toolOutcome' = ArgumentsError
    /\ pc' = "returned"
    /\ UNCHANGED << ret, stdout, stderr, calls, primaryResult, fallbackResult,
                    pullLog, messages, sent, chatResults >>

----------------------------------------------------------------------------
(* The specification *)

Init ==
    /\ pc = "idle"
    /\ fn = "none"
    /\ ret = NotReturned
    /\ stdout = << >>
    /\ stderr = << >>
    /\ calls = << >>
    /\ primaryResult = None
    /\ fallbackResult = None
    /\ pullLog = << >>
    /\ messages = << >>
    /\ sent = << >>
    /\ chatResults = << >>
    /\ toolArgs = JsonScalar(<< "null" >>)
    /\ handlerCalls = << >>
    /\ toolOutcome = NoOutcome

Next ==
    \/ Call_fallback_agent
    \/ PrimaryPrompt
    \/ FallbackPrompt
    \/ Call_streaming_agent
    \/ StreamNext
    \/ Call_chat_agent
    \/ ChatTurn1
    \/ ChatTurn2
    \/ Invoke_calculator
    \/ Invoke_http_request

Spec == Init /\ [][Next]_vars

TypeOK ==
    /\ pc \in {"idle", "fb_primary", "fb_fallback", "st_loop", "ch_turn1",
               "ch_turn2", "returned"}
    /\ fn \in {"none", "fallback_agent", "streaming_agent", "chat_agent",
               "calculator", "http_request"}
    /\ Len(calls) <= 2
    /\ Len(sent) <= 2
    /\ Len(handlerCalls) <= 1

----------------------------------------------------------------------------
(* Properties of fallback_agent *)

InFallback == fn = "fallback_agent"

PrimaryFailed == InFallback /\ primaryResult.kind = "Err"

FallbackPrompted == \E i \in 1..Len(calls) : calls[i].agent = "fallback"

\* C1 as stated: when primary.prompt fails with a non-transient error the
\* request has failed at once and the fallback agent is never prompted.
C1_NonTransientShortCircuits ==
    (PrimaryFailed /\ ~primaryResult.err.transient)
        => /\ pc = "returned"
           /\ ret.kind = "Err"
           /\ ~FallbackPrompted

\* C1 amended: when primary.prompt fails with any error, transient or not, the
\* request does not fail at once: the fallback agent is prompted next, and the
\* request fails exactly when the fallback's prompt fails too.
C1_AnyPrimaryErrorFallsBack ==
    PrimaryFailed
        => \/ /\ pc = "fb_fallback"
              /\ ret = NotReturned
              /\ Len(calls) = 1
           \/ /\ pc = "returned"
              /\ Len(calls) = 2
              /\ calls[2].agent = "fallback"
              /\ (ret.kind = "Err") <=> (fallbackResult.kind = "Err")

C1_Witness ==
    /\ PrimaryFailed
    /\ ~primaryResult.err.transient
    /\ pc = "returned"
    /\ FallbackPrompted
    /\ ret.kind = "Ok"

\* C2: when primary.prompt fails with a transient error and fallback.prompt
\* succeeds, the answer printed is the fallback's answer and the fallback was
\* prompted with the very input the primary was prompted with.
C2_TransientFailureReturnsSecondaryAnswer ==
    (/\ PrimaryFailed
     /\ primaryResult.err.transient
     /\ pc = "returned"
     /\ fallbackResult.kind = "Ok")
        => /\ ret = OkUnit
           /\ Last(stdout) = << "response", fallbackResult.val >>
           /\ Len(calls) = 2
           /\ calls[1] = [agent |-> "primary", input |-> FallbackQuery]
           /\ calls[2] = [agent |-> "fallback", input |-> calls[1].input]

C2_Witness ==
    /\ PrimaryFailed
    /\ primaryResult.err.transient
    /\ pc = "returned"
    /\ fallbackResult.kind = "Ok"
    /\ Len(calls) = 2

BothFailed ==
    /\ InFallback
    /\ pc = "returned"
    /\ primaryResult.kind = "Err"
    /\ fallbackResult.kind = "Err"

\* C3 as stated: when both agents have failed, the caller gets the last
\* agent's error wrapped as AllProvidersExhaustedError.
C3_ExhaustionIsWrapped ==
    BothFailed
        => /\ ret.kind = "Err"
           /\ ret.wrapper = "AllProvidersExhaustedError"
           /\ ret.err = fallbackResult.err

\* C3 amended: when both agents have failed, the caller gets the fallback
\* agent's own error, propagated by `?` with no wrapper around it; the
\* primary's error is dropped.
C3_ExhaustionSurfacesFallbackError ==
    BothFailed
        => /\ ret.kind = "Err"
           /\ ret.wrapper = "none"
           /\ ret.err = fallbackResult.err

C3_Witness ==
    /\ BothFailed
    /\ primaryResult.err # fallbackResult.err
    /\ ret.kind = "Err"

\* C10: the fallback agent is prompted only after the primary's prompt ended
\* in an error; when the primary succeeds its answer is printed and the
\* fallback is never prompted; each agent is prompted at most once.
C10_FallbackOnlyAfterPrimaryError ==
    InFallback
        => /\ Cardinality({i \in 1..Len(calls) : calls[i].agent = "primary"}) <= 1
           /\ Cardinality({i \in 1..Len(calls) : calls[i].agent = "fallback"}) <= 1
           /\ \A i \in 1..Len(calls) :
                 calls[i].agent = "fallback"
                     => /\ i > 1
                        /\ calls[i - 1].agent = "primary"
                        /\ primaryResult.kind = "Err"
           /\ primaryResult.kind = "Ok"
                 => /\ pc = "returned"
                    /\ ret = OkUnit
                    /\ Last(stdout) = << "response", primaryResult.val >>
                    /\ ~FallbackPrompted

C10_Witness ==
    /\ InFallback
    /\ primaryResult.kind = "Ok"
    /\ pc = "returned"
    /\ Len(calls) = 1

----------------------------------------------------------------------------
(* Properties of streaming_agent *)

InStreaming == fn = "streaming_agent"

OfKind(log, k) == SelectSeq(log, LAMBDA item : item.kind = k)

PrintedTexts(log) ==
    [i \in 1..Len(OfKind(log, "Ok")) |-> << "text", OfKind(log, "Ok")[i].val >>]

PrintedErrors(log) ==
    [i \in 1..Len(OfKind(log, "Err")) |-> << "error", OfKind(log, "Err")[i].err >>]

\* C4 as stated: a chunk carrying an error ends the sequence; after the first
\* error chunk no further chunk, text or error, is pulled from the stream.
C4_ErrorChunkTerminates ==
    InStreaming
        => \A i, j \in 1..Len(pullLog) :
              (i < j /\ pullLog[i].kind = "Err") => pullLog[j].kind = "None"

\* C4 amended: a chunk carrying an error does not end the sequence: the error
\* is written to stderr and the loop pulls again; the loop ends only when the
\* stream itself ends, and by then every text chunk delivered, before or after
\* an error, has been printed in order and every error written to stderr.
C4_OnlyEndOfStreamTerminates ==
    InStreaming
        => /\ pc = "st_loop" => OfKind(pullLog, "None") = << >>
           /\ (pc = "returned" /\ pullLog # << >>)
                 => /\ ret = OkUnit
                    /\ Last(pullLog).kind = "None"
                    /\ Len(OfKind(pullLog, "None")) = 1
                    /\ stdout = << << "story", 0 >> >> \o PrintedTexts(pullLog)
                                    \o << << "newline", 0 >> >>
                    /\ stderr = PrintedErrors(pullLog)

C4_Witness ==
    /\ InStreaming
    /\ pc = "returned"
    /\ \E i, j \in 1..Len(pullLog) :
          /\ i < j
          /\ pullLog[i].kind = "Err"
          /\ pullLog[j].kind = "Ok"

----------------------------------------------------------------------------
(* Properties of chat_agent *)

InChat == fn = "chat_agent"

SystemPositions(conv) == {i \in 1..Len(conv) : conv[i].role = "system"}

\* C9: every conversation handed to the provider has at most one system
\* message, and it is the first; the conversation of the second turn is the
\* conversation of the first turn, unchanged, followed by the assistant's
\* reply to the first turn and then the new user message.
C9_HistoryIsExtendedInOrder ==
    InChat
        => /\ \A n \in 1..Len(sent) : SystemPositions(sent[n]) \subseteq {1}
           /\ Len(sent) = 2
                 => sent[2] = sent[1]
                       \o << Message("assistant", chatResults[1].val),
                             Message("user", SecondQuestion) >>

C9_Witness ==
    /\ InChat
    /\ Len(sent) = 2
    /\ pc = "returned"
    /\ ret = OkUnit

----------------------------------------------------------------------------
(* Properties of the tools *)

InTool == fn \in {"calculator", "http_request"}

\* C7: a tool call whose arguments violate the schema the tool declares never
\* enters the tool's call; it fails when the arguments are checked.
C7_SchemaViolationNeverReachesHandler ==
    (InTool /\ pc = "returned" /\ ~SchemaValid(fn, toolArgs))
        => /\ handlerCalls = << >>
           /\ toolOutcome = ArgumentsError

====
